---- MODULE Spec2Model ----
(***************************************************************************)
(* The screen-capture ring buffer of src/screen_recorder.py:               *)
(* ScreenRecorder (its construction, the frame buffer, the capture threads *)
(* started by start_recording, save_clip running on a caller's thread) and *)
(* the save, start and stop branches of                                    *)
(* VoiceControlledRecorder.process_recording_command.                      *)
(*                                                                         *)
(* Python threads interleave between bytecodes, so every access to a       *)
(* shared field (is_recording, frame_buffer, recording_bbox) is a step of  *)
(* its own; deque.append, deque.popleft, len() and list(deque) are single  *)
(* C calls and therefore atomic.                                           *)
(***************************************************************************)
EXTENDS Integers, Sequences, FiniteSets, TLC

\* ------------------------------------------------------------- bounds
\* fps is drawn from 1..MaxFps
MaxFps == 2
\* buffer_minutes * 60 (the buffered history in seconds) is drawn from
\* 0..MaxBufferSeconds
MaxBufferSeconds == 2
\* capture threads ever started by start_recording
MaxThreads == 2
\* readings of time.time(): the clock runs over 0..MaxTime
MaxTime == 1
\* frames appended to the buffer, over all capture threads
MaxFrames == 3
\* save_clip is asked for 0..MaxDuration seconds
MaxDuration == 1
\* calls made by the thread that saves clips and handles commands:
\* save_clip and process_recording_command
MaxSaves == 1
\* calls of set_monitor
MaxReconfigures == 1
\* pyautogui.size() is drawn from (1..MaxDesktop) x (1..MaxDesktop)
MaxDesktop == 2
\* consecutive failed screenshot calls are counted up to MaxFailures
MaxFailures == 3
\* seconds of buffer of the recorder a VoiceControlledRecorder constructs
\* (its buffer_minutes=15 and fps=20, scaled down to MaxFps frames a second)
VoiceBufferSeconds == 1
\* calls made by the thread that saves clips, in the runs that compare one
\* call with the next
MaxCalls == 2

\* ---------------------------------------------------- program constants
\* process_recording_command: "Default to 30 seconds if no duration specified"
DefaultDuration == 30

\* ------------------------------------------------------------- helpers
Min(a, b) == IF a <= b THEN a ELSE b

\* Python's None, and a value that is not None
None == <<>>
Some(x) == <<x>>

\* the slice taken from the wrong end: list(self.frame_buffer)[:n]
HeadSlice(s, n) ==
    IF n >= Len(s) THEN s ELSE SubSeq(s, 1, n)

\* list(self.frame_buffer)[-n:] as Python computes it: a negative start
\* index counts from the end and is clamped to the start of the list, and
\* -0 is 0, so [-0:] is the whole list
TailSlice(s, n) ==
    IF n = 0 THEN s
    ELSE IF n >= Len(s) THEN s
    ELSE SubSeq(s, Len(s) - n + 1, Len(s))

Threads == 1..MaxThreads

\* ------------------------------------------------------------ monitors
\* one entry of detect_monitors' monitor_list
Monitor(l, t, r, b, p) ==
    [left |-> l, top |-> t, right |-> r, bottom |-> b,
     width |-> r - l, height |-> b - t, is_primary |-> p]

\* the monitor lists the model starts from: a primary monitor with a
\* second, taller monitor to its right
Layouts ==
    { << Monitor(0, 0, 2, 1, TRUE), Monitor(2, 0, 3, 2, FALSE) >> }

\* what the platform can answer when a recorder is constructed: the
\* monitors it enumerates (none; one; two; two with the second to the left
\* of the primary, at a negative left; two with the second above the
\* primary, at a negative top), or no enumeration because the
\* win32api module cannot be imported, or because a call into it raises
EnumeratedLayouts ==
    Layouts \cup
    { << >>,
      << Monitor(0, 0, 2, 1, TRUE) >>,
      << Monitor(0, 0, 2, 1, TRUE), Monitor(-1, 0, 0, 1, FALSE) >>,
      << Monitor(0, 0, 2, 1, TRUE), Monitor(0, -1, 1, 0, FALSE) >> }

Platforms ==
    { [kind |-> k, monitors |-> ms, size |-> <<w, h>>] :
          k \in {"monitors"}, ms \in EnumeratedLayouts,
          w \in 1..MaxDesktop, h \in 1..MaxDesktop }
    \cup
    { [kind |-> k, monitors |-> << >>, size |-> <<w, h>>] :
          k \in {"ImportError", "error"},
          w \in 1..MaxDesktop, h \in 1..MaxDesktop }

\* detect_monitors: the enumerated list; on ImportError the single monitor
\* of pyautogui.size(); any other exception leaves the function
detect_monitors(p) ==
    IF p.kind = "monitors"
    THEN [raised |-> FALSE, monitors |-> p.monitors]
    ELSE IF p.kind = "ImportError"
    THEN [raised |-> FALSE,
          monitors |-> << Monitor(0, 0, p.size[1], p.size[2], TRUE) >>]
    ELSE [raised |-> TRUE, monitors |-> << >>]

\* the monitor lists a VoiceControlledRecorder starts from: those of
\* Layouts, and a single monitor
VoiceLayouts ==
    Layouts \cup { << Monitor(0, 0, 2, 1, TRUE) >> }

\* the monitor lists of the runs that give command texts: none, two
\* monitors of different sizes, and two of the same size side by side
CommandLayouts ==
    Layouts \cup
    { << >>,
      << Monitor(0, 0, 1, 1, TRUE), Monitor(1, 0, 2, 1, FALSE) >> }

SetMin(S) == CHOOSE x \in S : \A y \in S : x <= y
SetMax(S) == CHOOSE x \in S : \A y \in S : x >= y

\* next((m for m in monitors if m['is_primary']), monitors[0])
PrimaryOf(ms) ==
    IF \E i \in 1..Len(ms) : ms[i].is_primary
    THEN ms[SetMin({i \in 1..Len(ms) : ms[i].is_primary})]
    ELSE ms[1]

\* setup_recording_area when self.monitors is empty: the full screen of
\* pyautogui.size()
setup_recording_area_fallback(size) ==
    [recording_bbox |-> <<0, 0, size[1], size[2]>>,
     screen_width |-> size[1],
     screen_height |-> size[2],
     recording_description |-> <<"Full screen", size[1], size[2]>>]

\* a full desktop that starts at the first monitor's corner
setup_recording_area_FirstCorner(ms, idx) ==
    IF idx = None
    THEN LET left   == ms[1].left
             top    == ms[1].top
             right  == SetMax({ms[i].right : i \in 1..Len(ms)})
             bottom == SetMax({ms[i].bottom : i \in 1..Len(ms)})
         IN  [recording_bbox |-> <<left, top, right, bottom>>,
              screen_width |-> right - left,
              screen_height |-> bottom - top,
              recording_description |-> <<"All monitors", right - left, bottom - top>>]
    ELSE IF 0 <= idx[1] /\ idx[1] < Len(ms)
    THEN LET monitor == ms[idx[1] + 1]
         IN  [recording_bbox |-> <<monitor.left, monitor.top, monitor.right, monitor.bottom>>,
              screen_width |-> monitor.width,
              screen_height |-> monitor.height,
              recording_description |->
                  IF monitor.is_primary
                  THEN <<"Primary", monitor.width, monitor.height>>
                  ELSE <<"Monitor", idx[1] + 1, monitor.width, monitor.height>>]
    ELSE LET primary == PrimaryOf(ms)
         IN  [recording_bbox |-> <<primary.left, primary.top, primary.right, primary.bottom>>,
              screen_width |-> primary.width,
              screen_height |-> primary.height,
              recording_description |-> <<"Primary monitor", primary.width, primary.height>>]

\* setup_recording_area: the fields it assigns, for a non-empty monitor
\* list
setup_recording_area(ms, idx) ==
    IF idx = None
    THEN LET left   == SetMin({ms[i].left : i \in 1..Len(ms)})
             top    == SetMin({ms[i].top : i \in 1..Len(ms)})
             right  == SetMax({ms[i].right : i \in 1..Len(ms)})
             bottom == SetMax({ms[i].bottom : i \in 1..Len(ms)})
         IN  [recording_bbox |-> <<left, top, right, bottom>>,
              screen_width |-> right - left,
              screen_height |-> bottom - top,
              recording_description |-> <<"All monitors", right - left, bottom - top>>]
    ELSE IF 0 <= idx[1] /\ idx[1] < Len(ms)
    THEN LET monitor == ms[idx[1] + 1]
         IN  [recording_bbox |-> <<monitor.left, monitor.top, monitor.right, monitor.bottom>>,
              screen_width |-> monitor.width,
              screen_height |-> monitor.height,
              recording_description |->
                  IF monitor.is_primary
                  THEN <<"Primary", monitor.width, monitor.height>>
                  ELSE <<"Monitor", idx[1] + 1, monitor.width, monitor.height>>]
    ELSE LET primary == PrimaryOf(ms)
         IN  [recording_bbox |-> <<primary.left, primary.top, primary.right, primary.bottom>>,
              screen_width |-> primary.width,
              screen_height |-> primary.height,
              recording_description |-> <<"Primary monitor", primary.width, primary.height>>]

\* the rectangle pyautogui.screenshot(region=r) captures: it reads r as
\* (left, top, width, height)
CapturedRect(r) ==
    [left |-> r[1], top |-> r[2], width |-> r[3], height |-> r[4]]

\* the monitor_index values setup_recording_area does not call invalid:
\* None, and 0 <= monitor_index < len(self.monitors)
IndexInRange(ms, idx) ==
    idx = None \/ (0 <= idx[1] /\ idx[1] < Len(ms))

\* what extract_monitor_from_command finds in a command: one of the words
\* primary, secondary, all, or the number after "monitor"
Type(type) == [kind |-> "type", type |-> type, number |-> 0]
Number(n) == [kind |-> "number", type |-> "", number |-> n]

\* the selectors a command is given: each type, each monitor's number and
\* one number too many
Selectors(ms) ==
    {Type(type) : type \in {"primary", "secondary", "all"}}
    \cup {Number(n) : n \in 1..(Len(ms) + 1)}

\* set_monitor_by_type: the monitor_index it calls set_monitor with, or
\* found = FALSE when it returns its message without calling set_monitor
set_monitor_by_type(ms, type) ==
    IF type = "primary"
    THEN [found |-> TRUE,
          index |-> IF \E i \in 1..Len(ms) : ms[i].is_primary
                    THEN Some(SetMin({i \in 1..Len(ms) : ms[i].is_primary}) - 1)
                    ELSE Some(0)]
    ELSE IF type = "secondary"
    THEN IF Len(ms) < 2
         THEN [found |-> FALSE, index |-> None]
         ELSE [found |-> TRUE,
               index |-> IF \E i \in 1..Len(ms) : ~ms[i].is_primary
                         THEN Some(SetMin({i \in 1..Len(ms) : ~ms[i].is_primary}) - 1)
                         ELSE Some(1)]
    ELSE IF type = "all"
    THEN [found |-> TRUE, index |-> None]
    ELSE [found |-> FALSE, index |-> None]

\* set_monitor_by_number: monitor_num - 1 if that is a monitor's index
set_monitor_by_number(ms, monitor_num) ==
    IF 0 <= monitor_num - 1 /\ monitor_num - 1 < Len(ms)
    THEN [found |-> TRUE, index |-> Some(monitor_num - 1)]
    ELSE [found |-> FALSE, index |-> None]

\* self.set_monitor_by_number(monitor_specified) if it is an int, else
\* self.set_monitor_by_type(monitor_specified)
Selection(ms, sel) ==
    IF sel.kind = "number"
    THEN set_monitor_by_number(ms, sel.number)
    ELSE set_monitor_by_type(ms, sel.type)

\* ------------------------------------------------- command texts
\* A command text is the sequence of its words and numbers, which single
\* spaces separate in the text itself.
W(w) == [word |-> w, number |-> 0]
N(n) == [word |-> "", number |-> n]
IsNumber(token) == token.word = ""

\* the words of the commands that contain the key as a substring, that
\* end with it and that begin with it
Containing(key) ==
    IF key = "record" THEN {"record", "recording"}
    ELSE IF key = "monitor" THEN {"monitor", "monitors"}
    ELSE {key}

Ending(key) == {key}

Beginning(key) ==
    IF key = "monitor" THEN {"monitor", "monitors"}
    ELSE IF key = "sec" THEN {"sec", "second", "seconds", "secondary"}
    ELSE IF key = "min" THEN {"min", "minute", "minutes"}
    ELSE {key}

\* key in command_text, for a key of one word
HasWord(text, key) ==
    \E i \in 1..Len(text) : text[i].word \in Containing(key)

\* 'a b' in command_text
HasPhrase(text, a, b) ==
    \E i \in 1..(Len(text) - 1) :
        /\ text[i].word \in Ending(a)
        /\ text[i + 1].word \in Beginning(b)

\* the places where a regular expression (\d+)\s*(?:unit) matches: a number
\* and then a word that begins with the unit
NumberBefore(text, unit) ==
    {i \in 1..(Len(text) - 1) :
        IsNumber(text[i]) /\ text[i + 1].word \in Beginning(unit)}

\* the places where r'monitor (\d+)' matches
MonitorNumberAt(text) ==
    {i \in 1..(Len(text) - 1) :
        text[i].word \in Ending("monitor") /\ IsNumber(text[i + 1])}

\* extract_duration: the seconds and the minutes named with their unit;
\* if they add up to 0, the first number of the text, taken as seconds up
\* to 300 and as minutes above
extract_duration(text) ==
    LET seconds_match == NumberBefore(text, "sec")
        minutes_match == NumberBefore(text, "min")
        total_seconds ==
            (IF seconds_match # {} THEN text[SetMin(seconds_match)].number ELSE 0)
            + (IF minutes_match # {}
               THEN text[SetMin(minutes_match)].number * 60 ELSE 0)
        number_match == {i \in 1..Len(text) : IsNumber(text[i])}
    IN  IF total_seconds # 0 THEN total_seconds
        ELSE IF number_match = {} THEN 0
        ELSE LET num == text[SetMin(number_match)].number
             IN  IF 1 <= num /\ num <= 300 THEN num
                 ELSE IF num > 300 THEN num * 60
                 ELSE 0

\* extract_monitor_from_command
extract_monitor_from_command(text) ==
    IF HasPhrase(text, "primary", "monitor") \/ HasPhrase(text, "main", "monitor")
    THEN Some(Type("primary"))
    ELSE IF \/ HasPhrase(text, "secondary", "monitor")
            \/ HasPhrase(text, "second", "monitor")
    THEN Some(Type("secondary"))
    ELSE IF HasPhrase(text, "all", "monitors") \/ HasPhrase(text, "both", "monitors")
    THEN Some(Type("all"))
    ELSE IF MonitorNumberAt(text) # {}
    THEN Some(Number(text[SetMin(MonitorNumberAt(text)) + 1].number))
    ELSE None

\* the branch of process_recording_command that a command text takes: the
\* tests in the order of the if/elif chain
Branch(text) ==
    IF \E key \in {"record", "save", "clip", "capture"} : HasWord(text, key)
    THEN "save"
    ELSE IF HasWord(text, "buffer") \/ HasWord(text, "status")
    THEN "status"
    ELSE IF HasPhrase(text, "stop", "recording")
    THEN "stop"
    ELSE IF HasPhrase(text, "start", "recording")
    THEN "start"
    ELSE IF \E key \in {"monitor", "screen", "display"} : HasWord(text, key)
    THEN "monitor"
    ELSE "none"

\* the command texts given to process_recording_command:
\* 'save clip', 'save 1 second clip', 'save clip from monitor 2',
\* 'save clip from primary monitor', 'save clip from secondary monitor',
\* 'save clip from all monitors', 'stop recording', 'start recording',
\* 'buffer status', 'primary monitor', 'monitor 2', 'hello'
CommandTexts ==
    { << W("save"), W("clip") >>,
      << W("save"), N(1), W("second"), W("clip") >>,
      << W("save"), W("clip"), W("from"), W("monitor"), N(2) >>,
      << W("save"), W("clip"), W("from"), W("primary"), W("monitor") >>,
      << W("save"), W("clip"), W("from"), W("secondary"), W("monitor") >>,
      << W("save"), W("clip"), W("from"), W("all"), W("monitors") >>,
      << W("stop"), W("recording") >>,
      << W("start"), W("recording") >>,
      << W("buffer"), W("status") >>,
      << W("primary"), W("monitor") >>,
      << W("monitor"), N(2) >>,
      << W("hello") >> }

\* the monitor_index values a caller passes: None, each monitor, one too many
MonitorIndexes(ms) == {None} \cup {Some(i) : i \in 0..Len(ms)}

\* --------------------------------------------------------------- state
VARIABLES
    \* the platform the recorder is constructed on, and whether __init__
    \* has run ("no"), returned ("yes") or raised ("raised")
    platform, constructed,
    \* what a run of the model is limited to, fixed by its initial state:
    \* limit.saves calls made by the thread that saves clips, and
    \* consecutive failures counted up to limit.failures
    limit,
    \* ScreenRecorder fields
    fps, max_frames, monitors,
    is_recording, frame_buffer,
    monitor_index, recording_bbox, screen_width, screen_height,
    recording_description,
    \* VoiceControlledRecorder.current_monitor
    current_monitor,
    \* position of a thread that is inside set_monitor, in the runs that
    \* take set_monitor statement by statement
    monitor_pc,
    \* the capture threads: position in _recording_loop and its locals
    pc, screenshot, timestamp,
    \* time.time()
    now,
    \* the thread that saves a clip: position in save_clip, its argument,
    \* locals and return value, who called it and what the caller answers
    save_pc, duration_seconds, frames_needed, frames_to_save, filepath, result,
    caller, response,
    \* process_recording_command's locals monitor_specified and
    \* original_monitor
    monitor_specified, original_monitor,
    \* the recordings directory
    files,
    \* bookkeeping of the model: capture threads started, frames appended,
    \* set_monitor calls and save_clip calls made; len(frame_buffer) when
    \* frames_needed was computed; whether a capture thread changed the
    \* buffer while the save_clip call was running
    started, appended, reconfigured, saves, len_at_count, pushed_during_save,
    \* the screenshot calls that have raised since the last one that
    \* returned
    failures,
    \* the calls of save_clip that have returned, kept in the runs that
    \* keep them: what was asked, why it ended, what it returned
    \* and was answered, and the slice it took
    history

config_vars == <<platform, constructed, limit, fps, max_frames, monitors>>
region_vars == <<monitor_index, recording_bbox, screen_width, screen_height,
                 recording_description, reconfigured, current_monitor,
                 monitor_pc>>
loop_vars == <<pc, screenshot, timestamp>>
command_locals == <<monitor_specified, original_monitor>>
save_locals == <<save_pc, duration_seconds, frames_needed, frames_to_save,
                 filepath, result, caller, response, len_at_count, command_locals>>
save_vars == <<save_locals, files, saves, pushed_during_save, history>>
vars == <<config_vars, is_recording, frame_buffer, region_vars, loop_vars, now,
          failures, started, appended, save_vars>>

\* ScreenRecorder.__init__(buffer_minutes, fps, monitor_index=None) has
\* returned on a platform that enumerates the monitors of Layouts; the
\* model carries buffer_minutes as the whole number buffer_minutes * 60
Init ==
    \E f \in 1..MaxFps, buffer_seconds \in 0..MaxBufferSeconds, ms \in Layouts :
        LET area == setup_recording_area(ms, None) IN
        /\ platform = [kind |-> "monitors", monitors |-> ms,
                       size |-> <<PrimaryOf(ms).width, PrimaryOf(ms).height>>]
        /\ constructed = "yes"
        /\ limit = [saves |-> MaxSaves, failures |-> 0, history |-> FALSE]
        /\ fps = f
        /\ max_frames = buffer_seconds * f
        /\ monitors = ms
        /\ is_recording = FALSE
        /\ frame_buffer = <<>>
        /\ monitor_index = None
        /\ recording_bbox = area.recording_bbox
        /\ screen_width = area.screen_width
        /\ screen_height = area.screen_height
        /\ recording_description = area.recording_description
        /\ pc = [t \in Threads |-> "unborn"]
        /\ screenshot = [t \in Threads |-> None]
        /\ timestamp = [t \in Threads |-> 0]
        /\ now = 0
        /\ save_pc = "idle"
        /\ duration_seconds = 0
        /\ frames_needed = 0
        /\ frames_to_save = <<>>
        /\ filepath = None
        /\ result = None
        /\ caller = "none"
        /\ response = None
        /\ files = {}
        /\ started = 0
        /\ appended = 0
        /\ reconfigured = 0
        /\ saves = 0
        /\ len_at_count = 0
        /\ pushed_during_save = FALSE
        /\ failures = 0
        /\ current_monitor = None
        /\ monitor_pc = "idle"
        /\ monitor_specified = None
        /\ original_monitor = None
        /\ history = <<>>

\* before ScreenRecorder.__init__ runs: a platform, and no recorder yet
InitConstruct ==
    /\ platform \in Platforms
    /\ constructed = "no"
    /\ limit = [saves |-> MaxSaves, failures |-> 0, history |-> FALSE]
    /\ fps = 0
    /\ max_frames = 0
    /\ monitors = << >>
    /\ is_recording = FALSE
    /\ frame_buffer = <<>>
    /\ monitor_index = None
    /\ recording_bbox = << >>
    /\ screen_width = 0
    /\ screen_height = 0
    /\ recording_description = << >>
    /\ pc = [t \in Threads |-> "unborn"]
    /\ screenshot = [t \in Threads |-> None]
    /\ timestamp = [t \in Threads |-> 0]
    /\ now = 0
    /\ save_pc = "idle"
    /\ duration_seconds = 0
    /\ frames_needed = 0
    /\ frames_to_save = <<>>
    /\ filepath = None
    /\ result = None
    /\ caller = "none"
    /\ response = None
    /\ files = {}
    /\ started = 0
    /\ appended = 0
    /\ reconfigured = 0
    /\ saves = 0
    /\ len_at_count = 0
    /\ pushed_during_save = FALSE
    /\ failures = 0
    /\ current_monitor = None
    /\ monitor_pc = "idle"
    /\ monitor_specified = None
    /\ original_monitor = None
    /\ history = <<>>

\* ScreenRecorder.__init__(buffer_minutes, fps, monitor_index): the fields
\* are assigned, detect_monitors and setup_recording_area run; an
\* exception leaving detect_monitors leaves __init__ too, and no recorder
\* exists
ScreenRecorder_init(buffer_seconds, f, idx) ==
    LET detected == detect_monitors(platform)
        area == IF detected.monitors = << >>
                THEN setup_recording_area_fallback(platform.size)
                ELSE setup_recording_area(detected.monitors, idx)
    IN
    /\ constructed = "no"
    /\ IF detected.raised
       THEN /\ constructed' = "raised"
            /\ UNCHANGED <<fps, max_frames, monitors, monitor_index,
                           recording_bbox, screen_width, screen_height,
                           recording_description>>
       ELSE /\ constructed' = "yes"
            /\ fps' = f
            /\ max_frames' = buffer_seconds * f
            /\ monitors' = detected.monitors
            /\ monitor_index' = idx
            /\ recording_bbox' = area.recording_bbox
            /\ screen_width' = area.screen_width
            /\ screen_height' = area.screen_height
            /\ recording_description' = area.recording_description
    /\ UNCHANGED <<platform, limit, is_recording, frame_buffer, reconfigured,
                   current_monitor, monitor_pc, loop_vars,
                   now, failures, started, appended, save_vars>>

\* Init, in a run that counts the consecutive failures of the screenshot
\* call and saves no clip
InitFailures ==
    \E f \in 1..MaxFps, buffer_seconds \in 0..MaxBufferSeconds, ms \in Layouts :
        LET area == setup_recording_area(ms, None) IN
        /\ platform = [kind |-> "monitors", monitors |-> ms,
                       size |-> <<PrimaryOf(ms).width, PrimaryOf(ms).height>>]
        /\ constructed = "yes"
        /\ limit = [saves |-> 0, failures |-> MaxFailures, history |-> FALSE]
        /\ fps = f
        /\ max_frames = buffer_seconds * f
        /\ monitors = ms
        /\ is_recording = FALSE
        /\ frame_buffer = <<>>
        /\ monitor_index = None
        /\ recording_bbox = area.recording_bbox
        /\ screen_width = area.screen_width
        /\ screen_height = area.screen_height
        /\ recording_description = area.recording_description
        /\ pc = [t \in Threads |-> "unborn"]
        /\ screenshot = [t \in Threads |-> None]
        /\ timestamp = [t \in Threads |-> 0]
        /\ now = 0
        /\ save_pc = "idle"
        /\ duration_seconds = 0
        /\ frames_needed = 0
        /\ frames_to_save = <<>>
        /\ filepath = None
        /\ result = None
        /\ caller = "none"
        /\ response = None
        /\ files = {}
        /\ started = 0
        /\ appended = 0
        /\ reconfigured = 0
        /\ saves = 0
        /\ len_at_count = 0
        /\ pushed_during_save = FALSE
        /\ failures = 0
        /\ current_monitor = None
        /\ monitor_pc = "idle"
        /\ monitor_specified = None
        /\ original_monitor = None
        /\ history = <<>>

\* VoiceControlledRecorder.__init__ has returned: the recorder is
\* constructed and started, current_monitor is None; the thread that saves
\* clips makes the given number of calls, of which the history is kept or
\* not.  On an empty monitor list the region is the full screen of
\* pyautogui.size().
Started(calls, keep, layouts) ==
    \E f \in {MaxFps}, buffer_seconds \in {VoiceBufferSeconds}, ms \in layouts :
        LET size == IF ms = << >>
                    THEN <<MaxDesktop, 1>>
                    ELSE <<PrimaryOf(ms).width, PrimaryOf(ms).height>>
            area == IF ms = << >>
                    THEN setup_recording_area_fallback(size)
                    ELSE setup_recording_area(ms, None)
        IN
        /\ platform = [kind |-> "monitors", monitors |-> ms,
                       size |-> size]
        /\ constructed = "yes"
        /\ limit = [saves |-> calls, failures |-> 0, history |-> keep]
        /\ fps = f
        /\ max_frames = buffer_seconds * f
        /\ monitors = ms
        /\ is_recording = TRUE
        /\ frame_buffer = <<>>
        /\ monitor_index = None
        /\ recording_bbox = area.recording_bbox
        /\ screen_width = area.screen_width
        /\ screen_height = area.screen_height
        /\ recording_description = area.recording_description
        /\ pc = [t \in Threads |-> IF t = 1 THEN "while" ELSE "unborn"]
        /\ screenshot = [t \in Threads |-> None]
        /\ timestamp = [t \in Threads |-> 0]
        /\ now = 0
        /\ save_pc = "idle"
        /\ duration_seconds = 0
        /\ frames_needed = 0
        /\ frames_to_save = <<>>
        /\ filepath = None
        /\ result = None
        /\ caller = "none"
        /\ response = None
        /\ files = {}
        /\ started = 1
        /\ appended = 0
        /\ reconfigured = 0
        /\ saves = 0
        /\ len_at_count = 0
        /\ pushed_during_save = FALSE
        /\ failures = 0
        /\ current_monitor = None
        /\ monitor_pc = "idle"
        /\ monitor_specified = None
        /\ original_monitor = None
        /\ history = <<>>

\* one call or command, on one monitor or two
InitVoice == Started(1, FALSE, VoiceLayouts)

\* MaxCalls calls, one after the other, of which the history is kept
InitRepeat == Started(MaxCalls, TRUE, Layouts)

\* MaxCalls commands given as texts
InitCommand == Started(MaxCalls, FALSE, CommandLayouts)

\* one call, beside a thread that calls set_monitor
InitRegion == Started(1, FALSE, Layouts)

\* the capture threads inside _recording_loop
Alive == {t \in Threads : pc[t] \notin {"unborn", "returned"}}

\* the capture threads that are in an iteration and have yet to append
InPush == {t \in Threads : pc[t] \in {"capture", "append"}}

\* a save_clip call is between its first line and its return
SaveRunning == save_pc \in {"test", "count", "slice", "write"}

\* ------------------------------------------------------ caller's calls
\* start_recording: return if already recording, else set the flag and
\* start a new daemon thread running _recording_loop
start_recording_body ==
    /\ is_recording \/ started < MaxThreads
    /\ IF is_recording
       THEN UNCHANGED <<is_recording, started, loop_vars>>
       ELSE /\ is_recording' = TRUE
            /\ started' = started + 1
            /\ pc' = [pc EXCEPT ![started + 1] = "while"]
            /\ UNCHANGED <<screenshot, timestamp>>
    /\ UNCHANGED <<config_vars, frame_buffer, region_vars, now, failures, appended>>

\* start_recording called on its own, as VoiceControlledRecorder.__init__
\* and any other owner of the recorder call it
start_recording ==
    /\ start_recording_body
    /\ UNCHANGED save_vars

\* a stop_recording that flips the flag
stop_recording_body_Toggles ==
    /\ is_recording' = ~is_recording
    /\ UNCHANGED <<config_vars, frame_buffer, region_vars, loop_vars, now, failures,
                   started, appended>>

\* stop_recording: clear the flag and return
stop_recording_body ==
    /\ is_recording' = FALSE
    /\ UNCHANGED <<config_vars, frame_buffer, region_vars, loop_vars, now, failures,
                   started, appended>>

\* stop_recording called on its own
stop_recording ==
    /\ stop_recording_body
    /\ UNCHANGED save_vars

\* a set_monitor that starts the new region with an empty buffer
set_monitor_Clears(idx) ==
    LET area == setup_recording_area(monitors, idx) IN
    /\ reconfigured < MaxReconfigures
    /\ reconfigured' = reconfigured + 1
    /\ monitor_index' = idx
    /\ recording_bbox' = area.recording_bbox
    /\ screen_width' = area.screen_width
    /\ screen_height' = area.screen_height
    /\ recording_description' = area.recording_description
    /\ UNCHANGED <<current_monitor, monitor_pc>>
    /\ frame_buffer' = <<>>
    /\ UNCHANGED <<config_vars, is_recording, loop_vars, now, failures,
                   started, appended, save_vars>>

\* set_monitor(monitor_index): store the index and set up the area again
set_monitor(idx) ==
    LET area == setup_recording_area(monitors, idx) IN
    /\ reconfigured < MaxReconfigures
    /\ reconfigured' = reconfigured + 1
    /\ monitor_index' = idx
    /\ recording_bbox' = area.recording_bbox
    /\ screen_width' = area.screen_width
    /\ screen_height' = area.screen_height
    /\ recording_description' = area.recording_description
    /\ UNCHANGED <<current_monitor, monitor_pc>>
    /\ UNCHANGED <<config_vars, is_recording, frame_buffer, loop_vars, now, failures,
                   started, appended, save_vars>>

\* set_monitor and setup_recording_area statement by statement, as a
\* thread runs them beside the capture thread and save_clip, for a
\* recorder that has monitors.
\* self.monitor_index = monitor_index
SetMonitorIndex(idx) ==
    /\ monitor_pc = "idle"
    /\ monitors # << >>
    /\ reconfigured < MaxReconfigures
    /\ reconfigured' = reconfigured + 1
    /\ monitor_index' = idx
    /\ monitor_pc' = "bbox"
    /\ UNCHANGED <<recording_bbox, screen_width, screen_height,
                   recording_description, current_monitor>>
    /\ UNCHANGED <<config_vars, is_recording, frame_buffer, loop_vars, now, failures,
                   started, appended, save_vars>>

\* self.recording_bbox = (...)
SetupBbox ==
    /\ monitor_pc = "bbox"
    /\ recording_bbox' = setup_recording_area(monitors, monitor_index).recording_bbox
    /\ monitor_pc' = "width"
    /\ UNCHANGED <<monitor_index, screen_width, screen_height,
                   recording_description, reconfigured, current_monitor>>
    /\ UNCHANGED <<config_vars, is_recording, frame_buffer, loop_vars, now, failures,
                   started, appended, save_vars>>

\* self.screen_width = ...
SetupWidth ==
    /\ monitor_pc = "width"
    /\ screen_width' = setup_recording_area(monitors, monitor_index).screen_width
    /\ monitor_pc' = "height"
    /\ UNCHANGED <<monitor_index, recording_bbox, screen_height,
                   recording_description, reconfigured, current_monitor>>
    /\ UNCHANGED <<config_vars, is_recording, frame_buffer, loop_vars, now, failures,
                   started, appended, save_vars>>

\* self.screen_height = ...
SetupHeight ==
    /\ monitor_pc = "height"
    /\ screen_height' = setup_recording_area(monitors, monitor_index).screen_height
    /\ monitor_pc' = "description"
    /\ UNCHANGED <<monitor_index, recording_bbox, screen_width,
                   recording_description, reconfigured, current_monitor>>
    /\ UNCHANGED <<config_vars, is_recording, frame_buffer, loop_vars, now, failures,
                   started, appended, save_vars>>

\* self.recording_description = ..., and set_monitor returns
SetupDescription ==
    /\ monitor_pc = "description"
    /\ recording_description' =
           setup_recording_area(monitors, monitor_index).recording_description
    /\ monitor_pc' = "idle"
    /\ UNCHANGED <<monitor_index, recording_bbox, screen_width, screen_height,
                   reconfigured, current_monitor>>
    /\ UNCHANGED <<config_vars, is_recording, frame_buffer, loop_vars, now, failures,
                   started, appended, save_vars>>

\* the steps of a thread that calls set_monitor
Reconfiguring ==
    \/ \E idx \in MonitorIndexes(monitors) : SetMonitorIndex(idx)
    \/ SetupBbox
    \/ SetupWidth
    \/ SetupHeight
    \/ SetupDescription

\* -------------------------------------------------- _recording_loop
\* a loop that never tests the flag: while True:
LoopWhile_Forever(t) ==
    /\ pc[t] = "while"
    /\ appended + Cardinality(InPush) < MaxFrames
    /\ pc' = [pc EXCEPT ![t] = "capture"]
    /\ UNCHANGED <<config_vars, is_recording, frame_buffer, region_vars,
                   screenshot, timestamp, now, failures, started, appended, save_vars>>

\* while self.is_recording:
LoopWhile(t) ==
    /\ pc[t] = "while"
    /\ IF is_recording
       THEN /\ appended + Cardinality(InPush) < MaxFrames
            /\ pc' = [pc EXCEPT ![t] = "capture"]
       ELSE pc' = [pc EXCEPT ![t] = "returned"]
    /\ UNCHANGED <<config_vars, is_recording, frame_buffer, region_vars,
                   screenshot, timestamp, now, failures, started, appended, save_vars>>

\* a loop that keeps capturing the region the recorder was constructed
\* with
LoopCapture_FirstRegion(t) ==
    /\ pc[t] = "capture"
    /\ screenshot' = [screenshot EXCEPT
                          ![t] = Some(setup_recording_area(monitors, None).recording_bbox)]
    /\ timestamp' = [timestamp EXCEPT ![t] = now]
    /\ pc' = [pc EXCEPT ![t] = "append"]
    /\ failures' = 0
    /\ UNCHANGED <<config_vars, is_recording, frame_buffer, region_vars, now,
                   started, appended, save_vars>>

\* screenshot = pyautogui.screenshot(region=self.recording_bbox);
\* timestamp = time.time().  The screenshot is known by the bbox it was
\* taken with.
LoopCapture(t) ==
    /\ pc[t] = "capture"
    /\ screenshot' = [screenshot EXCEPT ![t] = Some(recording_bbox)]
    /\ timestamp' = [timestamp EXCEPT ![t] = now]
    /\ pc' = [pc EXCEPT ![t] = "append"]
    /\ failures' = 0
    /\ UNCHANGED <<config_vars, is_recording, frame_buffer, region_vars, now,
                   started, appended, save_vars>>

\* a loop that an exception ends
LoopCaptureFails_Ends(t) ==
    /\ pc[t] = "capture"
    /\ pc' = [pc EXCEPT ![t] = "returned"]
    /\ failures' = Min(failures + 1, limit.failures)
    /\ UNCHANGED <<config_vars, is_recording, frame_buffer, region_vars,
                   screenshot, timestamp, now, started, appended, save_vars>>

\* the screenshot call raises: control passes to the except clause
LoopCaptureFails(t) ==
    /\ pc[t] = "capture"
    /\ pc' = [pc EXCEPT ![t] = "except"]
    /\ failures' = Min(failures + 1, limit.failures)
    /\ UNCHANGED <<config_vars, is_recording, frame_buffer, region_vars,
                   screenshot, timestamp, now, started, appended, save_vars>>

\* an append that waits while save_clip is running, as under a lock held
\* by save_clip
LoopAppend_WaitsForSave(t) ==
    /\ pc[t] = "append"
    /\ ~SaveRunning
    /\ frame_buffer' = Append(frame_buffer,
                              [frame |-> screenshot[t][1],
                               timestamp |-> timestamp[t],
                               seq |-> appended + 1])
    /\ appended' = appended + 1
    /\ screenshot' = [screenshot EXCEPT ![t] = None]
    /\ timestamp' = [timestamp EXCEPT ![t] = 0]
    /\ pc' = [pc EXCEPT ![t] = "trim"]
    /\ pushed_during_save' = (pushed_during_save \/ SaveRunning)
    /\ UNCHANGED <<config_vars, is_recording, region_vars, now, failures, started,
                   save_locals, files, saves, history>>

\* self.frame_buffer.append((frame, timestamp)); seq numbers the appends.
\* The locals are dead until the next iteration assigns them again.
LoopAppend(t) ==
    /\ pc[t] = "append"
    /\ frame_buffer' = Append(frame_buffer,
                              [frame |-> screenshot[t][1],
                               timestamp |-> timestamp[t],
                               seq |-> appended + 1])
    /\ appended' = appended + 1
    /\ screenshot' = [screenshot EXCEPT ![t] = None]
    /\ timestamp' = [timestamp EXCEPT ![t] = 0]
    /\ pc' = [pc EXCEPT ![t] = "trim"]
    /\ pushed_during_save' = (pushed_during_save \/ SaveRunning)
    /\ UNCHANGED <<config_vars, is_recording, region_vars, now, failures, started,
                   save_locals, files, saves, history>>

\* the trim loop with its bound off by one: > self.max_frames + 1
LoopTrimTest_OffByOne(t) ==
    /\ pc[t] = "trim"
    /\ pc' = [pc EXCEPT ![t] =
                 IF Len(frame_buffer) > max_frames + 1 THEN "popleft" ELSE "while"]
    /\ UNCHANGED <<config_vars, is_recording, frame_buffer, region_vars,
                   screenshot, timestamp, now, failures, started, appended, save_vars>>

\* while len(self.frame_buffer) > self.max_frames: ... and once it is not,
\* time.sleep(sleep_time) and back to the loop test
LoopTrimTest(t) ==
    /\ pc[t] = "trim"
    /\ pc' = [pc EXCEPT ![t] =
                 IF Len(frame_buffer) > max_frames THEN "popleft" ELSE "while"]
    /\ UNCHANGED <<config_vars, is_recording, frame_buffer, region_vars,
                   screenshot, timestamp, now, failures, started, appended, save_vars>>

\* the eviction taking the newest frame: self.frame_buffer.pop()
LoopPopleft_Newest(t) ==
    /\ pc[t] = "popleft"
    /\ IF frame_buffer = <<>>
       THEN /\ pc' = [pc EXCEPT ![t] = "except"]
            /\ UNCHANGED <<frame_buffer, pushed_during_save>>
       ELSE /\ frame_buffer' = SubSeq(frame_buffer, 1, Len(frame_buffer) - 1)
            /\ pc' = [pc EXCEPT ![t] = "trim"]
            /\ pushed_during_save' = (pushed_during_save \/ SaveRunning)
    /\ UNCHANGED <<config_vars, is_recording, region_vars, screenshot, timestamp,
                   now, failures, started, appended, save_locals, files, saves, history>>

\* self.frame_buffer.popleft(): IndexError on an empty deque, which the
\* except clause catches like a failed capture
LoopPopleft(t) ==
    /\ pc[t] = "popleft"
    /\ IF frame_buffer = <<>>
       THEN /\ pc' = [pc EXCEPT ![t] = "except"]
            /\ UNCHANGED <<frame_buffer, pushed_during_save>>
       ELSE /\ frame_buffer' = Tail(frame_buffer)
            /\ pc' = [pc EXCEPT ![t] = "trim"]
            /\ pushed_during_save' = (pushed_during_save \/ SaveRunning)
    /\ UNCHANGED <<config_vars, is_recording, region_vars, screenshot, timestamp,
                   now, failures, started, appended, save_locals, files, saves, history>>

\* except Exception as e: print(...); time.sleep(0.1), and back to the
\* loop test
LoopExcept(t) ==
    /\ pc[t] = "except"
    /\ pc' = [pc EXCEPT ![t] = "while"]
    /\ UNCHANGED <<config_vars, is_recording, frame_buffer, region_vars,
                   screenshot, timestamp, now, failures, started, appended, save_vars>>

\* f"{num / den:.1f}": the quotient in tenths, rounded to the nearest
\* tenth, a tie going to the even one
Tenths(num, den) ==
    LET q == (10 * num) \div den
        r == (10 * num) % den
    IN  IF 2 * r > den THEN q + 1
        ELSE IF 2 * r = den THEN q + (q % 2)
        ELSE q

\* get_buffer_info: "Buffer is empty", or the seconds (len / fps), the
\* minutes and the number of frames that are in the buffer
get_buffer_info ==
    IF frame_buffer = <<>>
    THEN [text |-> "Buffer is empty"]
    ELSE [text |-> "Buffer",
          seconds |-> Tenths(Len(frame_buffer), fps),
          minutes |-> Tenths(Len(frame_buffer), fps * 60),
          frames |-> Len(frame_buffer)]

\* ------------------------------------------------------------ save_clip
\* what process_recording_command answers once save_clip has returned res:
\* f"Saved {duration} second clip from {description} to {basename}" if
\* filepath else "Failed to save clip"
Response(duration, res) ==
    IF res # None
    THEN [text |-> "Saved", duration |-> duration,
          from |-> recording_description, file |-> res[1]]
    ELSE [text |-> "Failed to save clip"]

\* save_clip returns res, its locals die, and a call made by
\* process_recording_command is answered with the response built from res;
\* a command that named a monitor has yet to restore the one before
Return(res) ==
    /\ save_pc' = IF caller = "command" /\ monitor_specified # None
                  THEN "restore"
                  ELSE "returned"
    /\ result' = res
    /\ response' = IF caller = "command"
                   THEN Some(Response(duration_seconds, res))
                   ELSE None
    /\ duration_seconds' = 0
    /\ frames_needed' = 0
    /\ frames_to_save' = <<>>
    /\ filepath' = None
    /\ caller' = "none"
    /\ len_at_count' = 0
    /\ pushed_during_save' = FALSE
    /\ UNCHANGED command_locals

\* the record of a save_clip call that returns res
Log(cause, res) ==
    history' =
        IF limit.history
        THEN Append(history,
                    [duration |-> duration_seconds,
                     cause |-> cause,
                     result |-> res,
                     response |-> IF caller = "command"
                                  THEN Some(Response(duration_seconds, res))
                                  ELSE None,
                     snapshot |-> frames_to_save])
        ELSE history

\* a caller's thread enters save_clip(d)
Call(d, who) ==
    /\ save_pc \in {"idle", "returned"}
    /\ saves < limit.saves
    /\ saves' = saves + 1
    /\ save_pc' = "test"
    /\ duration_seconds' = d
    /\ caller' = who
    /\ result' = None
    /\ response' = None
    /\ UNCHANGED <<config_vars, is_recording, frame_buffer, loop_vars,
                   now, failures, started, appended, frames_needed, frames_to_save,
                   filepath, len_at_count, files, pushed_during_save,
                   history>>

\* a call of save_clip that is not preceded by a change of monitor
Enter(d, who) ==
    /\ Call(d, who)
    /\ UNCHANGED <<region_vars, command_locals>>

\* recorder.save_clip(d) called directly
save_clip(d) == Enter(d, "api")

\* process_recording_command on a command with one of the words record,
\* save, clip, capture and no monitor phrase; d is what extract_duration
\* found in it (0: nothing found)
process_recording_command(d) ==
    Enter(IF d > 0 THEN d ELSE DefaultDuration, "command")

\* what setup_recording_area assigns once monitor_index is idx, the
\* monitor list being empty or not
Area(idx) ==
    IF monitors = << >>
    THEN setup_recording_area_fallback(platform.size)
    ELSE setup_recording_area(monitors, idx)

\* process_recording_command on a command with one of the words record,
\* save, clip, capture that names a monitor: the monitor before is
\* remembered, the named one is set if there is one (what
\* set_monitor_by_number or set_monitor_by_type returns is dropped), and
\* save_clip is called
SaveCommandOnMonitor(d, sel) ==
    LET selected == Selection(monitors, sel)
        area == Area(selected.index)
    IN
    /\ Call(IF d > 0 THEN d ELSE DefaultDuration, "command")
    /\ monitor_specified' = Some(sel)
    /\ original_monitor' = current_monitor
    /\ IF selected.found
       THEN /\ monitor_index' = selected.index
            /\ recording_bbox' = area.recording_bbox
            /\ screen_width' = area.screen_width
            /\ screen_height' = area.screen_height
            /\ recording_description' = area.recording_description
            /\ current_monitor' = selected.index
       ELSE UNCHANGED <<monitor_index, recording_bbox, screen_width,
                        screen_height, recording_description, current_monitor>>
    /\ UNCHANGED <<reconfigured, monitor_pc>>

\* "Restore original monitor if we switched": set_monitor_by_number(
\* original_monitor + 1) or set_monitor_by_type('all'), and return result
CommandRestore ==
    LET selected == IF original_monitor # None
                    THEN set_monitor_by_number(monitors, original_monitor[1] + 1)
                    ELSE set_monitor_by_type(monitors, "all")
        area == Area(selected.index)
    IN
    /\ save_pc = "restore"
    /\ save_pc' = "returned"
    /\ monitor_specified' = None
    /\ original_monitor' = None
    /\ IF selected.found
       THEN /\ monitor_index' = selected.index
            /\ recording_bbox' = area.recording_bbox
            /\ screen_width' = area.screen_width
            /\ screen_height' = area.screen_height
            /\ recording_description' = area.recording_description
            /\ current_monitor' = selected.index
       ELSE UNCHANGED <<monitor_index, recording_bbox, screen_width,
                        screen_height, recording_description, current_monitor>>
    /\ UNCHANGED <<config_vars, is_recording, frame_buffer, reconfigured, monitor_pc,
                   loop_vars, now, failures, started, appended,
                   duration_seconds, frames_needed, frames_to_save, filepath,
                   result, caller, response, len_at_count, files, saves,
                   pushed_during_save, history>>

\* the writer opened before the buffer is tested, so that the call on an
\* empty buffer leaves an empty file behind
SaveTest_OpensFirst ==
    /\ save_pc = "test"
    /\ IF frame_buffer = <<>>
       THEN /\ Return(None)
            /\ Log("empty buffer", None)
            /\ files' = files \cup {<<"clip", duration_seconds, now>>}
       ELSE /\ save_pc' = "count"
            /\ UNCHANGED <<duration_seconds, frames_needed, frames_to_save,
                           filepath, result, caller, response, len_at_count,
                           pushed_during_save, files, command_locals,
                           history>>
    /\ UNCHANGED <<config_vars, is_recording, frame_buffer, region_vars, loop_vars,
                   now, failures, started, appended, saves>>

\* if not self.frame_buffer: return None
SaveTest ==
    /\ save_pc = "test"
    /\ IF frame_buffer = <<>>
       THEN /\ Return(None)
            /\ Log("empty buffer", None)
       ELSE /\ save_pc' = "count"
            /\ UNCHANGED <<duration_seconds, frames_needed, frames_to_save,
                           filepath, result, caller, response, len_at_count,
                           pushed_during_save, command_locals, history>>
    /\ UNCHANGED <<config_vars, is_recording, frame_buffer, region_vars, loop_vars,
                   now, failures, started, appended, files, saves>>

\* frames_needed = min(duration_seconds * self.fps, len(self.frame_buffer));
\* return None if it is <= 0, else build the file path
\* recordings/clip_{duration_seconds}s_{now to the second}.mp4
SaveCount ==
    /\ save_pc = "count"
    /\ IF Min(duration_seconds * fps, Len(frame_buffer)) <= 0
       THEN /\ Return(None)
            /\ Log("no frames", None)
       ELSE /\ frames_needed' = Min(duration_seconds * fps, Len(frame_buffer))
            /\ len_at_count' = Len(frame_buffer)
            /\ filepath' = Some(<<"clip", duration_seconds, now>>)
            /\ save_pc' = "slice"
            /\ UNCHANGED <<duration_seconds, frames_to_save, result, caller,
                           response, pushed_during_save, command_locals,
                           history>>
    /\ UNCHANGED <<config_vars, is_recording, frame_buffer, region_vars, loop_vars,
                   now, failures, started, appended, files, saves>>

\* the frames taken out of the buffer instead of copied: pop() in a loop
SaveSlice_Drains ==
    /\ save_pc = "slice"
    /\ frames_to_save' = TailSlice(frame_buffer, frames_needed)
    /\ frame_buffer' = SubSeq(frame_buffer, 1,
                              Len(frame_buffer) - Len(frames_to_save'))
    /\ save_pc' = "write"
    /\ UNCHANGED <<config_vars, is_recording, region_vars, loop_vars,
                   now, failures, started, appended, duration_seconds, frames_needed,
                   filepath, result, caller, response, len_at_count, files,
                   saves, pushed_during_save, command_locals, history>>

\* frames_to_save = list(self.frame_buffer)[-frames_needed:]
SaveSlice ==
    /\ save_pc = "slice"
    /\ frames_to_save' = TailSlice(frame_buffer, frames_needed)
    /\ save_pc' = "write"
    /\ UNCHANGED <<config_vars, is_recording, frame_buffer, region_vars, loop_vars,
                   now, failures, started, appended, duration_seconds, frames_needed,
                   filepath, result, caller, response, len_at_count, files,
                   saves, pushed_during_save, command_locals, history>>

\* the frames out.write accepts: those of the size the writer was opened
\* with; cv2.VideoWriter.write drops a frame of any other size without
\* raising
Encoded(frames, width, height) ==
    LET Fits(f) == /\ CapturedRect(f.frame).width = width
                   /\ CapturedRect(f.frame).height = height
    IN  SelectSeq(frames, Fits)

\* cv2.VideoWriter(filepath, fourcc, self.fps, (self.screen_width,
\* self.screen_height)), out.write(frame) for each frame, out.release(),
\* return filepath
SaveWrite ==
    /\ save_pc = "write"
    /\ files' = files \cup {filepath[1]}
    /\ Return(filepath)
    /\ Log("saved", filepath)
    /\ UNCHANGED <<config_vars, is_recording, frame_buffer, region_vars, loop_vars,
                   now, failures, started, appended, saves>>

\* an exception inside the try block: except Exception -> return None.
\* Nothing removes the file, which exists once the writer has opened it.
SaveWriteFails ==
    /\ save_pc = "write"
    /\ \E opened \in BOOLEAN :
           files' = IF opened THEN files \cup {filepath[1]} ELSE files
    /\ Return(None)
    /\ Log("exception", None)
    /\ UNCHANGED <<config_vars, is_recording, frame_buffer, region_vars, loop_vars,
                   now, failures, started, appended, saves>>

\* process_recording_command's answers to 'start recording' and to
\* 'stop recording'
StartedResponse == [text |-> "Screen recording started"]
StoppedResponse == [text |-> "Screen recording stopped"]

\* a command that process_recording_command handles without leaving the
\* function: the call it makes returns res, and it answers resp
Answer(res, resp) ==
    /\ save_pc \in {"idle", "returned"}
    /\ saves < limit.saves
    /\ saves' = saves + 1
    /\ save_pc' = "returned"
    /\ result' = res
    /\ response' = Some(resp)
    /\ UNCHANGED <<duration_seconds, frames_needed, frames_to_save, filepath,
                   caller, len_at_count, files, pushed_during_save,
                   command_locals, history>>

\* a call that the thread awaiting its return makes on the recorder
\* itself: it returns res, and no command is answered
Returns(res) ==
    /\ save_pc \in {"idle", "returned"}
    /\ saves < limit.saves
    /\ saves' = saves + 1
    /\ save_pc' = "returned"
    /\ result' = res
    /\ response' = None
    /\ UNCHANGED <<duration_seconds, frames_needed, frames_to_save, filepath,
                   caller, len_at_count, files, pushed_during_save,
                   command_locals, history>>

\* recorder.start_recording(), which returns None on both of its paths
StartCall ==
    /\ start_recording_body
    /\ Returns(None)

\* recorder.stop_recording(), which returns None
StopCall ==
    /\ stop_recording_body
    /\ Returns(None)

\* elif 'start recording' in command_lower: self.recorder.start_recording();
\* return "Screen recording started".  No command text takes this branch
\* or the next: a text with 'start recording' or 'stop recording' in it
\* has 'record' in it and takes the first branch.
StartCommand ==
    /\ start_recording_body
    /\ Answer(None, StartedResponse)

\* elif 'stop recording' in command_lower: self.recorder.stop_recording();
\* return "Screen recording stopped"
StopCommand ==
    /\ stop_recording_body
    /\ Answer(None, StoppedResponse)

\* elif 'buffer' in command_lower or 'status' in command_lower:
\* return self.recorder.get_buffer_info()
StatusCommand ==
    /\ Answer(Some(get_buffer_info), get_buffer_info)
    /\ UNCHANGED <<config_vars, is_recording, frame_buffer, region_vars, loop_vars,
                   now, failures, started, appended>>

\* what set_monitor_by_number and set_monitor_by_type return: what
\* set_monitor returns, or their own message
Message(sel, selected, area) ==
    IF selected.found
    THEN [text |-> "Now recording", from |-> area.recording_description]
    ELSE IF sel.kind = "number"
    THEN [text |-> "Monitor not found", number |-> sel.number,
          available |-> Len(monitors)]
    ELSE IF sel.type = "secondary"
    THEN [text |-> "No secondary monitor detected"]
    ELSE [text |-> "Invalid monitor type"]

\* list_monitors
list_monitors ==
    IF monitors = << >>
    THEN [text |-> "No monitors detected"]
    ELSE [text |-> "Available monitors",
          monitors |-> [i \in 1..Len(monitors) |->
                           <<i, monitors[i].width, monitors[i].height,
                             monitors[i].is_primary>>],
          current |-> recording_description]

NotRecognized == [text |-> "Monitor command not recognized"]

\* handle_monitor_command: list the monitors, or set the monitor the text
\* names and answer what the setter returns
handle_monitor_command(text) ==
    LET sel == extract_monitor_from_command(text)
        selected == Selection(monitors, sel[1])
        area == Area(selected.index)
    IN
    IF HasPhrase(text, "list", "monitors") \/ HasPhrase(text, "show", "monitors")
    THEN /\ Answer(None, list_monitors)
         /\ UNCHANGED <<config_vars, is_recording, frame_buffer, region_vars,
                        loop_vars, now, failures, started, appended>>
    ELSE IF sel = None
    THEN /\ Answer(None, NotRecognized)
         /\ UNCHANGED <<config_vars, is_recording, frame_buffer, region_vars,
                        loop_vars, now, failures, started, appended>>
    ELSE /\ Answer(None, Message(sel[1], selected, area))
         /\ IF selected.found
            THEN /\ monitor_index' = selected.index
                 /\ recording_bbox' = area.recording_bbox
                 /\ screen_width' = area.screen_width
                 /\ screen_height' = area.screen_height
                 /\ recording_description' = area.recording_description
                 /\ current_monitor' = selected.index
            ELSE UNCHANGED <<monitor_index, recording_bbox, screen_width,
                             screen_height, recording_description,
                             current_monitor>>
         /\ UNCHANGED <<reconfigured, monitor_pc>>
         /\ UNCHANGED <<config_vars, is_recording, frame_buffer, loop_vars, now,
                        failures, started, appended>>

\* return None  # Not a recording command
NotACommand ==
    /\ Returns(None)
    /\ UNCHANGED <<config_vars, is_recording, frame_buffer, region_vars, loop_vars,
                   now, failures, started, appended>>

\* process_recording_command(command_text): the duration and the branch
\* are taken from the text
Command(text) ==
    LET duration == extract_duration(text)
        monitor_named == extract_monitor_from_command(text)
        branch == Branch(text)
    IN  IF branch = "save"
        THEN IF monitor_named = None
             THEN process_recording_command(duration)
             ELSE SaveCommandOnMonitor(duration, monitor_named[1])
        ELSE IF branch = "status" THEN StatusCommand
        ELSE IF branch = "stop" THEN StopCommand
        ELSE IF branch = "start" THEN StartCommand
        ELSE IF branch = "monitor" THEN handle_monitor_command(text)
        ELSE NotACommand

\* the clock moves on
Tick ==
    /\ now < MaxTime
    /\ now' = now + 1
    /\ UNCHANGED <<failures, config_vars, is_recording, frame_buffer, region_vars, loop_vars,
                   started, appended, save_vars>>

\* the capture threads' steps, the clock, and the calls that stop the
\* recorder or change its monitor
Capturing ==
    \/ stop_recording
    \/ \E idx \in MonitorIndexes(monitors) : set_monitor(idx)
    \/ \E t \in Threads : LoopWhile(t)
    \/ \E t \in Threads : LoopCapture(t)
    \/ \E t \in Threads : LoopCaptureFails(t)
    \/ \E t \in Threads : LoopAppend(t)
    \/ \E t \in Threads : LoopTrimTest(t)
    \/ \E t \in Threads : LoopPopleft(t)
    \/ \E t \in Threads : LoopExcept(t)
    \/ Tick

\* the steps of a thread that saves a clip
Saving ==
    \/ \E d \in 0..MaxDuration : save_clip(d)
    \/ \E d \in 0..MaxDuration : process_recording_command(d)
    \/ SaveTest
    \/ SaveCount
    \/ SaveSlice
    \/ SaveWrite
    \/ SaveWriteFails

\* the calls that start and stop the recorder, and the command that asks
\* for its status
Commanding == StartCall \/ StopCall \/ StatusCommand

Next == start_recording \/ Capturing \/ Saving \/ Commanding

\* the recorder with callers arriving at any time
Spec == Init /\ [][Next]_vars

NextCapture == start_recording \/ Capturing \/ Commanding

\* the recorder while no clip is saved: start_recording, stop_recording
\* and set_monitor called at any time, on their own or by a command,
\* every capture thread they leave running
SpecCapture == Init /\ [][NextCapture]_vars

\* the monitor_index values a constructor is given
ConstructorIndexes == {None} \cup {Some(i) : i \in 0..2}

NextConstruct ==
    \E buffer_seconds \in 0..MaxBufferSeconds, f \in 1..MaxFps,
       idx \in ConstructorIndexes :
        ScreenRecorder_init(buffer_seconds, f, idx)

\* the construction of a recorder on every platform
SpecConstruct == InitConstruct /\ [][NextConstruct]_vars

\* a step of capture thread t
LoopStep(t) ==
    \/ LoopWhile(t)
    \/ LoopCapture(t)
    \/ LoopCaptureFails(t)
    \/ LoopAppend(t)
    \/ LoopTrimTest(t)
    \/ LoopPopleft(t)
    \/ LoopExcept(t)

\* SpecCapture with every capture thread scheduled again and again: a
\* thread that can take a step (its sleep ends, its screenshot call
\* returns or raises) takes one
SpecCaptureFair ==
    SpecCapture /\ \A t \in Threads : WF_vars(LoopStep(t))

NextFailures ==
    \/ start_recording
    \/ stop_recording
    \/ \E t \in Threads : LoopStep(t)

\* the recorder started and stopped at any time, with the consecutive
\* failures of the screenshot call counted
SpecFailures == InitFailures /\ [][NextFailures]_vars

NextVoice ==
    \/ \E t \in Threads : LoopStep(t)
    \/ Tick
    \/ Saving
    \/ \E d \in 0..MaxDuration, sel \in Selectors(monitors) :
           /\ sel.kind = "number" => d > 0
           /\ SaveCommandOnMonitor(d, sel)
    \/ CommandRestore

\* a VoiceControlledRecorder: the recorder it has started, with its one
\* capture thread, and a clip saved by call or by command, with or without
\* a monitor named.  extract_duration finds a duration in every command
\* that names a monitor by its number.
SpecVoice == InitVoice /\ [][NextVoice]_vars

NextRepeat ==
    \/ \E t \in Threads : LoopStep(t)
    \/ Tick
    \/ Saving

\* the started recorder with its one capture thread, and clips saved by
\* call or by command one after the other
SpecRepeat == InitRepeat /\ [][NextRepeat]_vars

NextRegion ==
    \/ \E t \in Threads : LoopStep(t)
    \/ Saving
    \/ Reconfiguring

\* the started recorder with its capture thread, a thread that saves a
\* clip and a thread that calls set_monitor, each taking its statements
\* one at a time
SpecRegion == InitRegion /\ [][NextRegion]_vars

NextCommand ==
    \/ \E t \in Threads : LoopStep(t)
    \/ \E text \in CommandTexts : Command(text)
    \/ SaveTest
    \/ SaveCount
    \/ SaveSlice
    \/ SaveWrite
    \/ SaveWriteFails
    \/ CommandRestore

\* the started recorder with its capture thread, and a thread that gives
\* process_recording_command one command text after the other
SpecCommand == InitCommand /\ [][NextCommand]_vars

\* start_recording called by a caller that restarts a stopped recorder
\* only once the capture thread of the previous run has returned
start_after_return ==
    /\ is_recording \/ Alive = {}
    /\ start_recording

NextSequential == start_after_return \/ Capturing \/ Saving

\* the recorder with such a caller, so with one capture thread at a time,
\* and clips saved at any time
SpecSequential == Init /\ [][NextSequential]_vars

\* ------------------------------------------------------------- claims
\* no capture thread is between its append and the end of its trim loop
AtRest == \A t \in Threads : pc[t] \notin {"trim", "popleft"}

\* the timestamps of a sequence of frames never decrease
NonDecreasing(frames) ==
    \A i, j \in 1..Len(frames) :
        i < j => frames[i].timestamp <= frames[j].timestamp

\* a step of the thread inside save_clip
SaveStep == save_pc' # save_pc

\* C1: whenever a capture thread completes a push (its append, then its
\* trim loop), the buffer then holds at most max_frames frames, whatever
\* the other threads and callers have done meanwhile
C1_CapacityAfterPush ==
    [][\A t \in Threads :
          (pc[t] \in {"trim", "popleft"} /\ pc'[t] = "while")
              => Len(frame_buffer') <= max_frames]_vars

\* C1 witness: a push that evicted has completed and left a full buffer
C1_Witness ==
    /\ max_frames > 0
    /\ appended > max_frames
    /\ Len(frame_buffer) = max_frames
    /\ \E t \in Threads : pc[t] = "while"
    /\ AtRest

C3_SnapshotConsistency ==
    save_pc = "write" =>
        /\ NonDecreasing(frames_to_save)
        /\ Len(frames_to_save) >= Min(duration_seconds * fps, len_at_count)

\* C4: when no capture thread touches the buffer during the call, the
\* slice is the min(duration_seconds * fps, L) most recently pushed
\* frames, oldest first, L being the length of the buffer
C4_TailOfBuffer ==
    (save_pc = "write" /\ ~pushed_during_save) =>
        LET n == Min(duration_seconds * fps, Len(frame_buffer)) IN
        /\ len_at_count = Len(frame_buffer)
        /\ Len(frames_to_save) = n
        /\ \A i \in 1..n :
               /\ frames_to_save[i] = frame_buffer[Len(frame_buffer) - n + i]
               /\ frames_to_save[i].seq = appended - n + i

\* C4 witness: a slice shorter than the buffer, taken while no capture
\* thread was inside a push
C4_Witness ==
    /\ save_pc = "write"
    /\ ~pushed_during_save
    /\ AtRest
    /\ Len(frames_to_save) > 0
    /\ Len(frames_to_save) < Len(frame_buffer)

\* C5: at most one capture thread is inside _recording_loop at any time
C5_SingleProducer == Cardinality(Alive) <= 1

\* C6: while is_recording is False (from the return of stop_recording to
\* the next start_recording) no frame is appended to the buffer
C6_StopIsSynchronous ==
    [][~is_recording => appended' = appended]_vars

\* C7: the timestamps of the frames in the buffer never decrease from
\* oldest to newest
C7_TimestampOrder == NonDecreasing(frame_buffer)

\* C8: no step of save_clip changes the buffer, whatever it returns
C8_SaveClipIsPureRead ==
    [][SaveStep => frame_buffer' = frame_buffer]_vars

\* C8 witness: a save_clip call has written its file and returned while
\* the buffer holds frames
C8_Witness ==
    /\ save_pc = "returned"
    /\ result # None
    /\ frame_buffer # <<>>

\* C9: save_clip finding the buffer empty returns None at once, writes no
\* file and does not start over
C9_EmptyBufferFails ==
    [][(save_pc = "test" /\ frame_buffer = <<>> /\ SaveStep) =>
           /\ save_pc' = "returned"
           /\ result' = None
           /\ files' = files
           /\ saves' = saves]_vars

\* C9 witness: a call on a started recorder that has captured nothing yet
\* has returned None and there is no file
C9_Witness ==
    /\ save_pc = "returned"
    /\ result = None
    /\ files = {}
    /\ is_recording
    /\ appended = 0

\* C10: a command asking for more seconds than are buffered is answered,
\* when the clip is saved, with all frames the buffer held and with the
\* duration frames_needed / fps, which is less than the duration asked for
C10_ClampedDurationReported ==
    [][(save_pc = "write" /\ save_pc' = "returned" /\ result' # None
            /\ caller = "command" /\ duration_seconds * fps > len_at_count) =>
           /\ frames_needed = len_at_count
           /\ response'[1].duration * fps = frames_needed
           /\ response'[1].duration < duration_seconds]_vars

\* C11: start_recording called on a running recorder is reported as a
\* failure the caller can tell from a successful start (which returns
\* None), and it changes nothing:
\* the flag stays set and no capture thread is started
C11_AlreadyRunningReported ==
    [][(is_recording /\ StartCall) =>
           /\ result' # None
           /\ is_recording'
           /\ started' = started
           /\ pc' = pc]_vars

\* what a session is: the recorder's fields and its capture threads
session == <<config_vars, is_recording, frame_buffer, region_vars, loop_vars>>

\* C12: stop_recording can be called in every state, it leaves the
\* recorder stopped, and called on a recorder that is already stopped (so
\* a second time in a row) it changes nothing of the session
C12_StopIdempotent ==
    /\ [](ENABLED stop_recording /\ (saves < limit.saves => ENABLED StopCall))
    /\ [][(stop_recording \/ StopCall) => ~is_recording']_vars
    /\ [][(~is_recording /\ (stop_recording \/ StopCall)) =>
              UNCHANGED session]_vars

\* C12 witness: a call of stop_recording has returned on a recorder that
\* was never started, so one that was stopped already
C12_Witness ==
    /\ save_pc = "returned"
    /\ result = None
    /\ response = None
    /\ started = 0
    /\ ~is_recording

\* C13: once the recorder is stopped, a capture thread appends only the
\* frame of the iteration it is in (it does not begin another capture,
\* and its append ends the iteration's push), and unless the recorder is
\* started again every capture thread returns
C13_StopTerminatesLoop ==
    /\ [][\A t \in Threads :
              /\ (~is_recording /\ pc[t] \notin {"capture", "append"})
                     => pc'[t] \notin {"capture", "append"}
              /\ (pc[t] = "append" /\ pc'[t] # "append") => pc'[t] = "trim"]_vars
    /\ ~is_recording ~> (is_recording \/ Alive = {})

\* C13 witness: the recorder was started once and stopped, and its
\* capture thread has returned leaving the frames it pushed
C13_Witness ==
    /\ ~is_recording
    /\ started = 1
    /\ pc[1] = "returned"
    /\ frame_buffer # <<>>

\* C14: set_monitor, whatever monitor_index it is given and whether the
\* recorder is running or stopped, leaves the buffer as it was: the same
\* frames in the same order
C14_SetMonitorKeepsBuffer ==
    [][(\E idx \in MonitorIndexes(monitors) : set_monitor(idx)) =>
           frame_buffer' = frame_buffer]_vars

\* C14 witness: set_monitor has changed the region of a running recorder
\* whose only capture thread had pushed at least one of the two frames
\* that are in the buffer, both taken from the region before
C14_Witness ==
    /\ is_recording
    /\ started = 1
    /\ reconfigured = 1
    /\ Len(frame_buffer) = 2
    /\ \A i \in 1..2 : frame_buffer[i].frame # recording_bbox

\* C15: every screenshot taken after set_monitor has returned is taken
\* with the region of the monitor_index set last, and set_monitor neither
\* stops the recorder nor ends or starts a capture thread
C15_RegionPickedUp ==
    /\ [][\A t \in Threads :
              (pc[t] = "capture" /\ pc'[t] = "append") =>
                  screenshot'[t] =
                      Some(setup_recording_area(monitors, monitor_index).recording_bbox)]_vars
    /\ [][(\E idx \in MonitorIndexes(monitors) : set_monitor(idx)) =>
              /\ is_recording' = is_recording
              /\ started' = started
              /\ pc' = pc]_vars

\* C15 witness: the one capture thread of a recorder that was never
\* stopped has pushed a frame of the region before set_monitor and then a
\* frame of the region after it
C15_Witness ==
    /\ is_recording
    /\ started = 1
    /\ reconfigured = 1
    /\ Len(frame_buffer) = 2
    /\ frame_buffer[1].frame # recording_bbox
    /\ frame_buffer[2].frame = recording_bbox

\* C16: the rectangle the screenshot call captures is the selected
\* region, left, top, width and height, so every frame is screen_width
\* wide and screen_height high
C16_RegionIsLeftTopWidthHeight ==
    [][\A t \in Threads :
          (pc[t] = "capture" /\ pc'[t] = "append") =>
              LET rect == CapturedRect(screenshot'[t][1])
                  area == setup_recording_area(monitors, monitor_index)
              IN  /\ rect.left = area.recording_bbox[1]
                  /\ rect.top = area.recording_bbox[2]
                  /\ rect.width = screen_width
                  /\ rect.height = screen_height]_vars

\* C17: stop_recording leaves the buffer empty, so that a recorder
\* started again holds no frame captured before the stop
C17_StopEmptiesBuffer ==
    [][(stop_recording \/ StopCall) => frame_buffer' = <<>>]_vars

\* C18: set_monitor given a monitor_index that names no monitor leaves
\* monitor_index, recording_bbox, screen_width, screen_height and
\* recording_description as they were
C18_InvalidSelectionRejected ==
    [][\A idx \in MonitorIndexes(monitors) :
          (~IndexInRange(monitors, idx) /\ set_monitor(idx)) =>
              UNCHANGED <<monitor_index, recording_bbox, screen_width,
                          screen_height, recording_description>>]_vars

\* C19: whenever the platform's monitor enumeration fails, in whatever
\* way, the recorder is constructed and its monitor list is the one
\* synthetic primary monitor at (0, 0) of the size of the desktop
C19_EnumerationFailureFallsBack ==
    (constructed # "no" /\ platform.kind # "monitors") =>
        /\ constructed = "yes"
        /\ monitors = << Monitor(0, 0, platform.size[1], platform.size[2], TRUE) >>

\* C20: a screenshot call that raises leaves the buffer as it was and
\* the capture thread in its loop: the thread passes the except clause
\* and is back at the loop test, from where, the recorder still running,
\* it captures again
C20_FailedCaptureSkipped ==
    /\ [][\A t \in Threads :
              (pc[t] = "capture" /\ pc'[t] # "capture" /\ screenshot'[t] = None) =>
                  /\ pc'[t] = "except"
                  /\ frame_buffer' = frame_buffer
                  /\ appended' = appended]_vars
    /\ [][\A t \in Threads :
              (pc[t] = "except" /\ pc'[t] # "except") =>
                  /\ pc'[t] = "while"
                  /\ frame_buffer' = frame_buffer]_vars
    /\ [](\A t \in Threads :
              /\ pc[t] = "except" => ENABLED LoopExcept(t)
              /\ (pc[t] = "while" /\ is_recording
                     /\ appended + Cardinality(InPush) < MaxFrames)
                     => ENABLED (LoopWhile(t) /\ pc'[t] = "capture"))

\* C20 witness: the only capture thread there ever was has pushed a frame
\* and a later screenshot call of its has raised: it is in the except
\* clause, the recorder is running and the frame is still in the buffer
C20_Witness ==
    /\ is_recording
    /\ started = 1
    /\ pc[1] = "except"
    /\ frame_buffer # <<>>

\* what a caller can read of the recorder's status
Observable == <<is_recording, get_buffer_info, recording_description>>

\* C21: the failed screenshot call that makes it MaxFailures (three) in a
\* row changes the status a caller can read, and leaves the capture
\* thread in its loop
C21_CaptureDegradedExposed ==
    [][\A t \in Threads :
          (pc[t] = "capture" /\ pc'[t] # "capture" /\ screenshot'[t] = None
               /\ failures < MaxFailures /\ failures' = MaxFailures) =>
              /\ Observable' # Observable
              /\ pc'[t] = "except"]_vars

\* C22: a save_clip call that fails inside its try block (the writer or
\* a write raises) returns None and leaves no file at its file path
C22_NoPartialFile ==
    [][(save_pc = "write" /\ SaveStep /\ result' = None) =>
           filepath[1] \notin files']_vars

\* C23: every save_clip call that succeeds writes to a path that no
\* earlier call has written to
C23_OneFilePerCall ==
    [][(save_pc = "write" /\ SaveStep /\ result' # None) =>
           result'[1] \notin files]_vars

\* C24: two calls of which one failed on the empty buffer and the other on
\* an exception while encoding return different results, and commands that
\* made them are answered differently
C24_FailureReasonsDistinct ==
    \A i, j \in 1..Len(history) :
        (history[i].cause = "empty buffer" /\ history[j].cause = "exception") =>
            /\ history[i].result # history[j].result
            /\ (history[i].response # None /\ history[j].response # None) =>
                   history[i].response # history[j].response

\* C25: a save_clip call that returns a path has put every frame of its
\* slice into the file, in the slice's order
C25_WroteExactlyTheSnapshot ==
    [][(save_pc = "write" /\ SaveStep /\ result' # None) =>
           Encoded(frames_to_save, screen_width, screen_height) = frames_to_save]_vars

\* C26: while the recorder is recording and a save_clip call is running,
\* every capture thread can take its next step (a thread at the loop test
\* as long as the run's budget of frames allows another iteration)
C26_SaveNeverBlocksCapture ==
    (is_recording /\ SaveRunning) =>
        \A t \in Alive :
            (pc[t] = "while" => appended + Cardinality(InPush) < MaxFrames) =>
                ENABLED LoopStep(t)

\* C26 witness: a save_clip call is about to encode its slice, and a
\* capture thread has changed the buffer since the call began and is
\* about to append again
C26_Witness ==
    /\ is_recording
    /\ save_pc = "write"
    /\ pushed_during_save
    /\ \E t \in Alive : pc[t] = "append"

\* C27: of two save_clip calls made one after the other with the same
\* duration, each having taken a slice, the second's newest frame is not
\* older than the first's newest, and the second's oldest frame is not
\* older than the first's oldest
C27_HistoryAdvances ==
    \A i \in 1..(Len(history) - 1) :
        LET first == history[i].snapshot
            second == history[i + 1].snapshot
        IN  (/\ history[i].duration = history[i + 1].duration
             /\ first # <<>>
             /\ second # <<>>) =>
                /\ second[Len(second)].timestamp >= first[Len(first)].timestamp
                /\ second[1].timestamp >= first[1].timestamp

\* C28: a save command naming a monitor that set_monitor_by_number or
\* set_monitor_by_type does not find is answered as a failure, and its
\* save_clip call returns no path and writes no file
C28_BadSelectorReported ==
    [][(/\ SaveStep
        /\ save_pc' = "restore"
        /\ ~Selection(monitors, monitor_specified[1]).found) =>
           /\ result' = None
           /\ response'[1].text # "Saved"
           /\ files' = files]_vars

\* C29: with max_frames = 0 a push that completes leaves the buffer
\* empty, the buffer is empty whenever no capture thread is between its
\* append and the end of its trimming, and a save_clip call that tests the
\* buffer then returns None on the empty-buffer test and writes no file
C29_CapacityZeroRetainsNothing ==
    /\ []((max_frames = 0 /\ AtRest) => frame_buffer = <<>>)
    /\ [][\A t \in Threads :
              (max_frames = 0 /\ pc[t] \in {"trim", "popleft"} /\ pc'[t] = "while")
                  => frame_buffer' = <<>>]_vars
    /\ [][(max_frames = 0 /\ AtRest /\ save_pc = "test" /\ SaveStep) =>
              /\ save_pc' = "returned"
              /\ result' = None
              /\ files' = files]_vars

\* C29 witness: a recorder of capacity 0 has pushed frames, holds none,
\* and a save_clip call has returned None without a file
C29_Witness ==
    /\ max_frames = 0
    /\ appended >= 1
    /\ frame_buffer = <<>>
    /\ \E t \in Threads : pc[t] = "while"
    /\ AtRest
    /\ save_pc = "returned"
    /\ result = None
    /\ files = {}

\* C30: a save_clip call asked for the last 0 frames does not leave by
\* one of its failure branches, whether the buffer is empty or not: it
\* goes on to take its slice, and the slice it takes is empty
C30_ZeroSliceIsEmptyNotError ==
    [][(duration_seconds * fps = 0 /\ SaveRunning /\ SaveStep) =>
           /\ save_pc \in {"test", "count"} => save_pc' # "returned"
           /\ save_pc = "slice" => frames_to_save' = <<>>]_vars

\* C31: what the status query returns tells a running recorder from a
\* stopped one and one region from another: no step changes is_recording
\* or the region description and leaves the query's answer as it was
C31_StatusReportsRegionAndState ==
    [][get_buffer_info' = get_buffer_info =>
           /\ is_recording' = is_recording
           /\ recording_description' = recording_description]_vars

\* C32: in every state, so whenever save_clip or get_buffer_info reads
\* len(self.frame_buffer), the buffer holds at most max_frames frames
C32_CapacityInEveryState ==
    Len(frame_buffer) <= max_frames

\* the (width, height) pairs and the bounding boxes of the regions
\* setup_recording_area sets up for the recorder's monitors
RegionSizes ==
    {<<setup_recording_area(monitors, idx).screen_width,
       setup_recording_area(monitors, idx).screen_height>> :
         idx \in MonitorIndexes(monitors)}

\* C33: the (screen_width, screen_height) pair with which save_clip opens
\* its writer is the size of one region, and the recording_bbox a
\* screenshot is taken with is the box of one region
C33_RegionReadConsistently ==
    /\ [][(save_pc = "write" /\ SaveStep) =>
              <<screen_width, screen_height>> \in RegionSizes]_vars
    /\ [][\A t \in Threads :
              (pc[t] = "capture" /\ pc'[t] = "append") =>
                  \E idx \in MonitorIndexes(monitors) :
                      screenshot'[t] =
                          Some(setup_recording_area(monitors, idx).recording_bbox)]_vars

\* C37: a recorder constructed with monitor_index None on a non-empty
\* monitor list has the bounding box of all monitors as its region: its
\* left and top are the least left and top of the monitors, and left plus
\* screen_width and top plus screen_height are their greatest right and
\* bottom
C37_AllIsUnionBoundingBox ==
    (constructed = "yes" /\ monitors # << >> /\ monitor_index = None) =>
        LET I == 1..Len(monitors)
            left == recording_bbox[1]
            top == recording_bbox[2]
        IN  /\ \A i \in I : left <= monitors[i].left
            /\ \E i \in I : left = monitors[i].left
            /\ \A i \in I : top <= monitors[i].top
            /\ \E i \in I : top = monitors[i].top
            /\ \A i \in I : left + screen_width >= monitors[i].right
            /\ \E i \in I : left + screen_width = monitors[i].right
            /\ \A i \in I : top + screen_height >= monitors[i].bottom
            /\ \E i \in I : top + screen_height = monitors[i].bottom

\* C37 witness: a recorder constructed on all of two monitors, the second
\* to the left of the first: the region starts at the second monitor's
\* left and spans both
C37_Witness ==
    /\ constructed = "yes"
    /\ monitor_index = None
    /\ Len(monitors) = 2
    /\ recording_bbox[1] = monitors[2].left
    /\ monitors[2].left < monitors[1].left
    /\ screen_width = monitors[1].right - monitors[2].left

\* C34: the command 'stop recording' leaves the recorder stopped and is
\* answered "Screen recording stopped", the command 'start recording'
\* leaves it recording and is answered "Screen recording started", and
\* neither enters save_clip
C34_CommandsReachSession ==
    /\ [][Command(<< W("stop"), W("recording") >>) =>
              /\ ~is_recording'
              /\ response' = Some(StoppedResponse)
              /\ save_pc' = "returned"]_vars
    /\ [][Command(<< W("start"), W("recording") >>) =>
              /\ is_recording'
              /\ response' = Some(StartedResponse)
              /\ save_pc' = "returned"]_vars

\* C38: a command that takes the save branch and names no number of
\* seconds or minutes calls save_clip with DefaultDuration seconds
C38_DefaultDuration ==
    [][\A text \in CommandTexts :
          (/\ Command(text)
           /\ Branch(text) = "save"
           /\ NumberBefore(text, "sec") = {}
           /\ NumberBefore(text, "min") = {}) =>
              duration_seconds' = DefaultDuration]_vars

\* C35: when a save command names a monitor that its selector resolves,
\* every frame that the writer encodes into the clip was captured with the
\* recording_bbox of the region that selector sets
C35_ClipFromSelectedRegion ==
    [][(/\ SaveWrite
        /\ monitor_specified # None
        /\ Selection(monitors, monitor_specified[1]).found) =>
           LET clip == Encoded(frames_to_save, screen_width, screen_height)
               area == Area(Selection(monitors, monitor_specified[1]).index)
           IN  \A i \in 1..Len(clip) :
                   clip[i].frame = area.recording_bbox]_vars

\* the recorder's region is the one setup_recording_area sets for idx
RegionIs(idx, bbox, width, height, description) ==
    /\ bbox = Area(idx).recording_bbox
    /\ width = Area(idx).screen_width
    /\ height = Area(idx).screen_height
    /\ description = Area(idx).recording_description

\* C36: a save command that names a monitor keeps in original_monitor the
\* monitor_index and current_monitor it finds, with the region being the
\* one of that index, and when the command returns, monitor_index,
\* current_monitor and the region are those again
C36_RegionRestored ==
    /\ [][(monitor_specified = None /\ monitor_specified' # None) =>
              /\ original_monitor' = current_monitor
              /\ original_monitor' = monitor_index
              /\ RegionIs(monitor_index, recording_bbox, screen_width,
                          screen_height, recording_description)]_vars
    /\ [][CommandRestore =>
              /\ current_monitor' = original_monitor
              /\ monitor_index' = original_monitor
              /\ RegionIs(original_monitor, recording_bbox', screen_width',
                          screen_height', recording_description')]_vars

====
